---- MODULE Spec2Model ----
(***************************************************************************)
(* Painting Progress: the army-list parser of public/app.js and the        *)
(* model store of server.js (with its earlier revision, unnamed/part_000). *)
(*                                                                         *)
(* A JavaScript string is a sequence of one-character strings, so that     *)
(* trimming, splitting and the regular expressions of the parser are       *)
(* computed character by character.  A JavaScript object is a record whose *)
(* DOMAIN is the set of keys it has: a key that is absent is absent from   *)
(* the DOMAIN.                                                             *)
(***************************************************************************)
EXTENDS Integers, Sequences, FiniteSets, TLC

Max(a, b) == IF a > b THEN a ELSE b

(***************************************************************************)
(* Characters and strings                                                  *)
(***************************************************************************)

\* \s of a regular expression and the characters String.prototype.trim removes
IsSpace(c) == c \in {" ", "\t", "\r", "\n"}

DigitChars == <<"0", "1", "2", "3", "4", "5", "6", "7", "8", "9">>

\* \d of a regular expression
IsDigit(c) == \E i \in 1..Len(DigitChars) : DigitChars[i] = c

DigitVal(c) == (CHOOSE i \in 1..Len(DigitChars) : DigitChars[i] = c) - 1

UpperLetters ==
  <<"A", "B", "C", "D", "E", "F", "G", "H", "I", "J", "K", "L", "M",
    "N", "O", "P", "Q", "R", "S", "T", "U", "V", "W", "X", "Y", "Z">>

LowerLetters ==
  <<"a", "b", "c", "d", "e", "f", "g", "h", "i", "j", "k", "l", "m",
    "n", "o", "p", "q", "r", "s", "t", "u", "v", "w", "x", "y", "z">>

IsUpper(c) == \E i \in 1..Len(UpperLetters) : UpperLetters[i] = c

IsLower(c) == \E i \in 1..Len(LowerLetters) : LowerLetters[i] = c

LowerChar(c) ==
  IF IsUpper(c)
    THEN LowerLetters[CHOOSE i \in 1..Len(UpperLetters) : UpperLetters[i] = c]
    ELSE c

\* String.prototype.toLowerCase
ToLower(s) == [i \in 1..Len(s) |-> LowerChar(s[i])]

\* \w of a regular expression
IsWordChar(c) == IsUpper(c) \/ IsLower(c) \/ IsDigit(c) \/ c = "_"

\* The length of the longest prefix of s made of whitespace
LeadWs(s) ==
  IF \A i \in 1..Len(s) : IsSpace(s[i])
    THEN Len(s)
    ELSE (CHOOSE i \in 1..Len(s) :
            ~IsSpace(s[i]) /\ \A j \in 1..(i - 1) : IsSpace(s[j])) - 1

\* The length of the longest suffix of s made of whitespace
TrailWs(s) ==
  IF \A i \in 1..Len(s) : IsSpace(s[i])
    THEN Len(s)
    ELSE Len(s) - (CHOOSE i \in 1..Len(s) :
                     ~IsSpace(s[i]) /\ \A j \in (i + 1)..Len(s) : IsSpace(s[j]))

\* The length of the longest prefix of s made of digits
LeadDigits(s) ==
  IF \A i \in 1..Len(s) : IsDigit(s[i])
    THEN Len(s)
    ELSE (CHOOSE i \in 1..Len(s) :
            ~IsDigit(s[i]) /\ \A j \in 1..(i - 1) : IsDigit(s[j])) - 1

\* The length of the longest suffix of s made of digits
TrailDigits(s) ==
  IF \A i \in 1..Len(s) : IsDigit(s[i])
    THEN Len(s)
    ELSE Len(s) - (CHOOSE i \in 1..Len(s) :
                     ~IsDigit(s[i]) /\ \A j \in (i + 1)..Len(s) : IsDigit(s[j]))

\* String.prototype.trim
Trim(s) == SubSeq(s, LeadWs(s) + 1, Len(s) - TrailWs(s))

\* String.prototype.startsWith
StartsWith(s, p) == Len(s) >= Len(p) /\ SubSeq(s, 1, Len(p)) = p

EndsWith(s, p) == Len(s) >= Len(p) /\ SubSeq(s, Len(s) - Len(p) + 1, Len(s)) = p

\* p occurs in s at position i
OccursAt(s, p, i) == i >= 1 /\ i + Len(p) - 1 <= Len(s) /\ SubSeq(s, i, i + Len(p) - 1) = p

\* String.prototype.includes, and RegExp.prototype.test of a literal pattern
Includes(s, p) == \E i \in 1..Len(s) : OccursAt(s, p, i)

\* RegExp.prototype.test of /\bp\b/ for a pattern p made of word characters
IncludesWord(s, p) ==
  \E i \in 1..Len(s) :
    /\ OccursAt(s, p, i)
    /\ (i = 1 \/ ~IsWordChar(s[i - 1]))
    /\ (i + Len(p) > Len(s) \/ ~IsWordChar(s[i + Len(p)]))

\* Number(s) for a string of digits
RECURSIVE DigitsToNat(_)
DigitsToNat(s) ==
  IF Len(s) = 0 THEN 0
  ELSE 10 * DigitsToNat(SubSeq(s, 1, Len(s) - 1)) + DigitVal(s[Len(s)])

\* text.split(/\r?\n/)
RECURSIVE SplitLines(_)
SplitLines(text) ==
  IF \A i \in 1..Len(text) : text[i] # "\n"
    THEN <<text>>
    ELSE LET i == CHOOSE k \in 1..Len(text) :
                    text[k] = "\n" /\ \A j \in 1..(k - 1) : text[j] # "\n"
             e == IF i > 1 /\ text[i - 1] = "\r" THEN i - 2 ELSE i - 1
         IN  <<SubSeq(text, 1, e)>> \o SplitLines(SubSeq(text, i + 1, Len(text)))

\* Array.prototype.filter(Boolean) on strings: the empty string is dropped
RECURSIVE FilterNonEmpty(_)
FilterNonEmpty(ls) ==
  IF Len(ls) = 0 THEN <<>>
  ELSE (IF Len(Head(ls)) = 0 THEN <<>> ELSE <<Head(ls)>>) \o FilterNonEmpty(Tail(ls))

\* Array.prototype.join("\n")
RECURSIVE JoinLines(_)
JoinLines(ls) ==
  IF Len(ls) = 0 THEN <<>>
  ELSE IF Len(ls) = 1 THEN ls[1]
  ELSE ls[1] \o <<"\n">> \o JoinLines(Tail(ls))

(***************************************************************************)
(* The army-list parser (public/app.js, parseArmyListText)                 *)
(***************************************************************************)

\* 'pts'
KwPts ==
  <<"p", "t", "s">>

\* 'musician'
KwMusician ==
  <<"m", "u", "s", "i", "c", "i", "a", "n">>

\* 'standard bearer'
KwStandardBearer ==
  <<"s", "t", "a", "n", "d", "a", "r", "d", " ", "b", "e", "a", "r", "e", "r">>

\* 'banner bearer'
KwBannerBearer ==
  <<"b", "a", "n", "n", "e", "r", " ", "b", "e", "a", "r", "e", "r">>

\* 'battle standard bearer'
KwBattleStandardBearer ==
  <<"b", "a", "t", "t", "l", "e", " ", "s", "t", "a", "n", "d", "a", "r", "d", " ", "b",
    "e", "a", "r", "e", "r">>

\* 'banner'
KwBanner ==
  <<"b", "a", "n", "n", "e", "r">>

\* 'champion'
KwChampion ==
  <<"c", "h", "a", "m", "p", "i", "o", "n">>

\* 'preceptor'
KwPreceptor ==
  <<"p", "r", "e", "c", "e", "p", "t", "o", "r">>

\* 'sergeant'
KwSergeant ==
  <<"s", "e", "r", "g", "e", "a", "n", "t">>

\* 'character'
KwCharacter ==
  <<"c", "h", "a", "r", "a", "c", "t", "e", "r">>

\* The index of the "[" at which /\[\d+\s*pts\]$/i matches s, 0 when it does not.
\* Anchored at the end, the match is unique: "]", "pts" in any case, all the
\* whitespace before it, all the digits before that, then "[".
PtsStart(s) ==
  LET n == Len(s)
      r == SubSeq(s, 1, n - 4)
      r2 == SubSeq(r, 1, Len(r) - TrailWs(r))
      d == TrailDigits(r2)
      b == Len(r2) - d
  IN  IF /\ n >= 6
         /\ s[n] = "]"
         /\ ToLower(SubSeq(s, n - 3, n - 1)) = KwPts
         /\ d >= 1
         /\ b >= 1
         /\ r2[b] = "["
        THEN b
        ELSE 0

NoMatch == [ok |-> FALSE]

\* A lazy group (.+?) followed by whitespace up to position Len(p): the shortest
\* non-empty prefix of p after which only whitespace is left
LazyGroup(p) == SubSeq(p, 1, Max(1, Len(p) - TrailWs(p)))

\* line.match(/^(.+?)\s*\[\d+\s*pts\]$/i)
armyMatch(line) ==
  LET b == PtsStart(line)
  IN  IF b >= 2
        THEN [ok |-> TRUE, g1 |-> LazyGroup(SubSeq(line, 1, b - 1))]
        ELSE NoMatch

\* line.match(/^\+\+\s*(.+?)\s*\[\d+\s*pts\]\s*\+\+$/i)
sectionMatch(line) ==
  LET n == Len(line)
      inner == SubSeq(line, 1, n - 2)
      core == SubSeq(inner, 1, Len(inner) - TrailWs(inner))
      b == PtsStart(core)
      q == SubSeq(core, 3, b - 1)
  IN  IF /\ n >= 4
         /\ StartsWith(line, <<"+", "+">>)
         /\ EndsWith(line, <<"+", "+">>)
         /\ b >= 4
        THEN [ok |-> TRUE,
              g1 |-> IF LeadWs(q) = Len(q) THEN <<q[Len(q)]>> ELSE Trim(q)]
        ELSE NoMatch

\* line.match(/^(\d+)\s+(.+?)\s+\[\d+\s*pts\]$/i)
withCountMatch(line) ==
  LET b == PtsStart(line)
      d == LeadDigits(line)
      m == SubSeq(line, d + 1, b - 1)
  IN  IF /\ b >= 1
         /\ d >= 1
         /\ Len(m) >= 3
         /\ IsSpace(m[1])
         /\ IsSpace(m[Len(m)])
        THEN [ok |-> TRUE,
              g1 |-> SubSeq(line, 1, d),
              g2 |-> IF LeadWs(m) = Len(m) THEN <<m[Len(m) - 1]>> ELSE Trim(m)]
        ELSE NoMatch

\* line.match(/^(.+?)\s+\[\d+\s*pts\]$/i)
singleMatch(line) ==
  LET b == PtsStart(line)
      p == SubSeq(line, 1, b - 1)
  IN  IF /\ b >= 3
         /\ IsSpace(p[Len(p)])
        THEN [ok |-> TRUE, g1 |-> LazyGroup(SubSeq(p, 1, Len(p) - 1))]
        ELSE NoMatch

ZeroCommand == [champion |-> 0, musician |-> 0, bannerBearer |-> 0]

\* JavaScript null: the value of `current` while no entry is being built
Null == [null |-> TRUE]

\* The two revisions of the browser script that app.js holds one after the
\* other: lines 1-283 (entries carry no details) and lines 284-598
ScriptOld == "app.js:1"

ScriptNew == "app.js:284"

Scripts == {ScriptOld, ScriptNew}

\* The entry object built at a header line, were its category the initial
\* 'Unit' whatever section the line stands in
NewEntryUnit(category, name, modelCount, script) ==
  IF script = ScriptNew
    THEN [category |-> "Unit",
          name |-> name,
          modelCount |-> modelCount,
          details |-> <<>>,
          command |-> ZeroCommand]
    ELSE [category |-> "Unit",
          name |-> name,
          modelCount |-> modelCount,
          command |-> ZeroCommand]

\* The entry object built at a header line
NewEntry(category, name, modelCount, script) ==
  IF script = ScriptNew
    THEN [category |-> category,
          name |-> name,
          modelCount |-> modelCount,
          details |-> <<>>,
          command |-> ZeroCommand]
    ELSE [category |-> category,
          name |-> name,
          modelCount |-> modelCount,
          command |-> ZeroCommand]

\* flushCurrent without its `current = null`: the slot keeps the pushed entry
flushCurrentKeeping(st) ==
  IF st.current = Null
    THEN st
    ELSE [st EXCEPT
            !.units = Append(st.units,
                             IF st.current.category = "Character"
                               THEN [st.current EXCEPT !.command = ZeroCommand]
                               ELSE st.current)]

\* flushCurrent, on the loop state st = [current, currentCategory, units]
flushCurrent(st) ==
  IF st.current = Null
    THEN st
    ELSE [st EXCEPT
            !.units = Append(st.units,
                             IF st.current.category = "Character"
                               THEN [st.current EXCEPT !.command = ZeroCommand]
                               ELSE st.current),
            !.current = Null]

\* line.startsWith('===') || line.startsWith('---') || line.startsWith('-- ')
IsDivider(line) ==
  \/ StartsWith(line, <<"=", "=", "=">>)
  \/ StartsWith(line, <<"-", "-", "-">>)
  \/ StartsWith(line, <<"-", "-", " ">>)

\* line.replace(/^\-\s*/, '').trim(), for a line that starts with "-"
cleanLine(line) ==
  LET rest == SubSeq(line, 2, Len(line))
  IN  Trim(SubSeq(rest, LeadWs(rest) + 1, Len(rest)))

KeywordMusician(lower) == Includes(lower, KwMusician)

KeywordBanner(lower) ==
  \/ Includes(lower, KwStandardBearer)
  \/ Includes(lower, KwBannerBearer)
  \/ Includes(lower, KwBattleStandardBearer)
  \/ IncludesWord(lower, KwBanner)

KeywordChampion(lower) ==
  \/ Includes(lower, KwChampion)
  \/ Includes(lower, KwPreceptor)
  \/ Includes(lower, KwSergeant)

\* The detail-line body, were each flag assigned the outcome of its test: a
\* line without the keyword clears the flag
DetailLineClearing(cur, line, script) ==
  LET clean == cleanLine(line)
      lower == ToLower(line)
      withDetails ==
        IF script = ScriptNew /\ Len(clean) > 0
          THEN [cur EXCEPT !.details = IF Len(cur.details) > 0
                                         THEN cur.details \o <<"\n">> \o clean
                                         ELSE clean]
          ELSE cur
  IN  IF cur.category # "Character"
        THEN [withDetails EXCEPT
                !.command =
                  [musician |-> IF KeywordMusician(lower) THEN 1 ELSE 0,
                   bannerBearer |-> IF KeywordBanner(lower) THEN 1 ELSE 0,
                   champion |-> IF KeywordChampion(lower) THEN 1 ELSE 0]]
        ELSE withDetails

\* The body of `if (current && line.startsWith('-'))`, on the entry cur; the
\* older revision has the keyword scan only
DetailLine(cur, line, script) ==
  LET clean == cleanLine(line)
      lower == ToLower(line)
      withDetails ==
        IF script = ScriptNew /\ Len(clean) > 0
          THEN [cur EXCEPT !.details = IF Len(cur.details) > 0
                                         THEN cur.details \o <<"\n">> \o clean
                                         ELSE clean]
          ELSE cur
  IN  IF cur.category # "Character"
        THEN [withDetails EXCEPT
                !.command =
                  [musician |-> IF KeywordMusician(lower) THEN 1 ELSE cur.command.musician,
                   bannerBearer |-> IF KeywordBanner(lower) THEN 1 ELSE cur.command.bannerBearer,
                   champion |-> IF KeywordChampion(lower) THEN 1 ELSE cur.command.champion]]
        ELSE withDetails

\* One iteration of the main loop with a final `else flushCurrent()`: a line of
\* no kind ends the entry in progress
LoopBodyFlushingElse(st, line, army, script) ==
  LET sec == sectionMatch(line)
      wc == withCountMatch(line)
      sg == singleMatch(line)
  IN  IF sec.ok
        THEN [flushCurrent(st) EXCEPT
                !.currentCategory = IF Includes(ToLower(sec.g1), KwCharacter)
                                      THEN "Character"
                                      ELSE "Unit"]
      ELSE IF IsDivider(line)
        THEN flushCurrent(st)
      ELSE IF wc.ok
        THEN [flushCurrent(st) EXCEPT
                !.current = NewEntry(st.currentCategory, Trim(wc.g2), DigitsToNat(wc.g1), script)]
      ELSE IF sg.ok /\ ~StartsWith(line, <<"[">>)
        THEN IF Trim(sg.g1) = army
               THEN st
               ELSE [flushCurrent(st) EXCEPT
                       !.current = NewEntry(st.currentCategory, Trim(sg.g1), 1, script)]
      ELSE IF st.current # Null /\ StartsWith(line, <<"-">>)
        THEN [st EXCEPT !.current = DetailLine(st.current, line, script)]
      ELSE flushCurrent(st)

\* One iteration of the main loop `for (const line of lines)`
LoopBody(st, line, army, script) ==
  LET sec == sectionMatch(line)
      wc == withCountMatch(line)
      sg == singleMatch(line)
  IN  IF sec.ok
        THEN [flushCurrent(st) EXCEPT
                !.currentCategory = IF Includes(ToLower(sec.g1), KwCharacter)
                                      THEN "Character"
                                      ELSE "Unit"]
      ELSE IF IsDivider(line)
        THEN flushCurrent(st)
      ELSE IF wc.ok
        THEN [flushCurrent(st) EXCEPT
                !.current = NewEntry(st.currentCategory, Trim(wc.g2), DigitsToNat(wc.g1), script)]
      ELSE IF sg.ok /\ ~StartsWith(line, <<"[">>)
        THEN IF Trim(sg.g1) = army
               THEN st
               ELSE [flushCurrent(st) EXCEPT
                       !.current = NewEntry(st.currentCategory, Trim(sg.g1), 1, script)]
      ELSE IF st.current # Null /\ StartsWith(line, <<"-">>)
        THEN [st EXCEPT !.current = DetailLine(st.current, line, script)]
      ELSE st

\* text.split(/\r?\n/).map((line) => line.trim()).filter(Boolean)
TrimmedLines(t) ==
  LET raw == SplitLines(t)
  IN  FilterNonEmpty([i \in 1..Len(raw) |-> Trim(raw[i])])

IsArmyLine(line) ==
  /\ armyMatch(line).ok
  /\ ~StartsWith(line, <<"+", "+">>)
  /\ ~StartsWith(line, <<"-", "-">>)

\* The first loop: the name of the first line that matches armyMatch and is not
\* a section or "--" line, '' when there is none
ParsedArmyOf(ls) ==
  IF \E i \in 1..Len(ls) : IsArmyLine(ls[i])
    THEN LET i == CHOOSE k \in 1..Len(ls) :
                    IsArmyLine(ls[k]) /\ \A j \in 1..(k - 1) : ~IsArmyLine(ls[j])
         IN  Trim(armyMatch(ls[i]).g1)
    ELSE <<>>

LoopStart == [current |-> Null, currentCategory |-> "Unit", units |-> <<>>]

\* The loop state after the first k lines of ls
RECURSIVE LoopAfter(_, _, _, _)
LoopAfter(ls, army, k, script) ==
  IF k = 0
    THEN LoopStart
    ELSE LoopBody(LoopAfter(ls, army, k - 1, script), ls[k], army, script)

\* parseArmyListText(text): { parsedArmy, units }
parseArmyListText(t, script) ==
  LET ls == TrimmedLines(t)
      army == ParsedArmyOf(ls)
  IN  [parsedArmy |-> army,
       units |-> flushCurrent(LoopAfter(ls, army, Len(ls), script)).units]

(***************************************************************************)
(* Input texts of the parser                                               *)
(***************************************************************************)

\* The seven lines of the parser scenario
\* '++ Characters [100 pts] ++'
LnCharacters ==
  <<"+", "+", " ", "C", "h", "a", "r", "a", "c", "t", "e", "r", "s", " ", "[", "1", "0",
    "0", " ", "p", "t", "s", "]", " ", "+", "+">>

\* 'Magic Lord [100 pts]'
LnMagicLord ==
  <<"M", "a", "g", "i", "c", " ", "L", "o", "r", "d", " ", "[", "1", "0", "0", " ", "p",
    "t", "s", "]">>

\* '- General'
LnGeneral ==
  <<"-", " ", "G", "e", "n", "e", "r", "a", "l">>

\* '++ Core [200 pts] ++'
LnCore ==
  <<"+", "+", " ", "C", "o", "r", "e", " ", "[", "2", "0", "0", " ", "p", "t", "s", "]",
    " ", "+", "+">>

\* '5 Spearmen [80 pts]'
LnSpearmen ==
  <<"5", " ", "S", "p", "e", "a", "r", "m", "e", "n", " ", "[", "8", "0", " ", "p", "t",
    "s", "]">>

\* '- Musician'
LnMusician ==
  <<"-", " ", "M", "u", "s", "i", "c", "i", "a", "n">>

\* '- Champion'
LnChampion ==
  <<"-", " ", "C", "h", "a", "m", "p", "i", "o", "n">>

\* The text of the parser scenario
ScenarioText ==
  JoinLines(<<LnCharacters, LnMagicLord, LnGeneral, LnCore, LnSpearmen, LnMusician,
              LnChampion>>)

\* Lines of a pasted export: an army-name line, section headers, entry headers
\* with and without a count, detail lines, dividers, and lines of no kind
\* 'Orcs [20pts]'
PlArmy ==
  <<"O", "r", "c", "s", " ", "[", "2", "0", "p", "t", "s", "]">>

\* '++ Characters [9 pts] ++'
PlCharacters ==
  <<"+", "+", " ", "C", "h", "a", "r", "a", "c", "t", "e", "r", "s", " ", "[", "9", " ",
    "p", "t", "s", "]", " ", "+", "+">>

\* '++Core [9 pts]++'
PlCore ==
  <<"+", "+", "C", "o", "r", "e", " ", "[", "9", " ", "p", "t", "s", "]", "+", "+">>

\* 'Lord [9 pts]'
PlLord ==
  <<"L", "o", "r", "d", " ", "[", "9", " ", "p", "t", "s", "]">>

\* '12 Boyz [8 PTS]'
PlBoyz ==
  <<"1", "2", " ", "B", "o", "y", "z", " ", "[", "8", " ", "P", "T", "S", "]">>

\* '0 Rat [1 pts]'
PlZero ==
  <<"0", " ", "R", "a", "t", " ", "[", "1", " ", "p", "t", "s", "]">>

\* '-Champion'
PlChampion ==
  <<"-", "C", "h", "a", "m", "p", "i", "o", "n">>

\* ' - Red Banner '
PlBanner ==
  <<" ", "-", " ", "R", "e", "d", " ", "B", "a", "n", "n", "e", "r", " ">>

\* '-'
PlDash ==
  <<"-">>

\* '---'
PlDivider ==
  <<"-", "-", "-">>

\* 'Notes'
PlNotes ==
  <<"N", "o", "t", "e", "s">>

\* '[x] [5 pts]'
PlBracket ==
  <<"[", "x", "]", " ", "[", "5", " ", "p", "t", "s", "]">>

LinePool ==
  {PlCharacters, PlCore, PlLord, PlBoyz, PlZero, PlChampion, PlBanner, PlDash,
   PlDivider, PlNotes, PlBracket}

\* The most lines of a text after its optional army-name line
MaxLines == 3

RECURSIVE LineSeqs(_)
LineSeqs(n) ==
  IF n = 0 THEN {<<>>}
  ELSE LET shorter == LineSeqs(n - 1)
       IN  shorter \cup {Append(s, l) : s \in {x \in shorter : Len(x) = n - 1}, l \in LinePool}

\* The pasted texts: up to MaxLines lines, after the army-name line or without
\* it, and the scenario text
Texts ==
  {JoinLines(first \o rest) : first \in {<<>>, <<PlArmy>>}, rest \in LineSeqs(MaxLines)}
    \cup {ScenarioText}

(***************************************************************************)
(* The model store (server.js, and its earlier revision unnamed/part_000)  *)
(*                                                                         *)
(* An id is a natural number: 0 is the empty string, any other number a    *)
(* non-empty string.  A timestamp is the reading of the clock.  imageUrl   *)
(* is the empty sequence or a URL.                                         *)
(***************************************************************************)

\* The two revisions of the server in the repository
Revisions == {"server.js", "part_000"}

\* const states = [...]
states == <<"Unbuilt", "Build", "Sprayed", "Undercoated", "Painted">>

IsState(s) == \E i \in 1..Len(states) : states[i] = s

\* z.string().trim().min(1).max(120) and .max(120)
MaxNameLen == 120

\* z.number().int().min(1).max(500)
MinModelCount == 1

MaxModelCount == 500

\* z.array(modelInputSchema).min(1).max(1000)
MaxImport == 1000

\* obj has the key k
Has(obj, k) == k \in DOMAIN obj

\* obj with obj[k] = v, the key added when it is absent
Put(obj, k, v) == [f \in DOMAIN obj \cup {k} |-> IF f = k THEN v ELSE obj[f]]

CommandKeys == {"champion", "musician", "bannerBearer"}

\* The default of a missing command count: 1 in server.js, 0 in part_000
DefaultCount(rev) == IF rev = "server.js" THEN 1 ELSE 0

\* z.number().int().min(0).default(d) on the key k of a command object
CountOk(cmd, k) == Has(cmd, k) => cmd[k] >= 0

CountOf(cmd, k, rev) == IF Has(cmd, k) THEN cmd[k] ELSE DefaultCount(rev)

\* commandSchema.optional().default({...}): the parsed command of a body, given
\* that the body passes
commandSchema(body, rev) ==
  IF Has(body, "command")
    THEN [k \in CommandKeys |-> CountOf(body.command, k, rev)]
    ELSE [k \in CommandKeys |-> DefaultCount(rev)]

\* modelInputSchema.safeParse(body).success, were modelCount z.number().int().min(1)
InputOkNoMax(body) ==
  /\ Has(body, "name")
  /\ Len(Trim(body.name)) >= 1
  /\ Len(Trim(body.name)) <= MaxNameLen
  /\ Has(body, "faction") => Len(Trim(body.faction)) <= MaxNameLen
  /\ Has(body, "modelCount")
  /\ body.modelCount >= MinModelCount
  /\ Has(body, "command") => \A k \in CommandKeys : CountOk(body.command, k)
  /\ Has(body, "state") => IsState(body.state)

\* modelInputSchema.safeParse(body).success
InputOk(body) ==
  /\ Has(body, "name")
  /\ Len(Trim(body.name)) >= 1
  /\ Len(Trim(body.name)) <= MaxNameLen
  /\ Has(body, "faction") => Len(Trim(body.faction)) <= MaxNameLen
  /\ Has(body, "modelCount")
  /\ body.modelCount >= MinModelCount
  /\ body.modelCount <= MaxModelCount
  /\ Has(body, "command") => \A k \in CommandKeys : CountOk(body.command, k)
  /\ Has(body, "state") => IsState(body.state)

\* modelInputSchema.safeParse(body).data: the keys of the schema only, trimmed,
\* with the defaults filled in
InputData(body, rev) ==
  [name |-> Trim(body.name),
   faction |-> IF Has(body, "faction") THEN Trim(body.faction) ELSE <<>>,
   modelCount |-> body.modelCount,
   command |-> commandSchema(body, rev),
   state |-> IF Has(body, "state") THEN body.state ELSE "Unbuilt"]

\* importSchema.safeParse(bodies).success, were the array schema to stop at the
\* first entry
ImportOkFirstEntry(bodies) ==
  /\ Len(bodies) >= 1
  /\ Len(bodies) <= MaxImport
  /\ InputOk(bodies[1])

\* importSchema.safeParse(bodies).success
ImportOk(bodies) ==
  /\ Len(bodies) >= 1
  /\ Len(bodies) <= MaxImport
  /\ \A i \in 1..Len(bodies) : InputOk(bodies[i])

\* The n-th value nanoid() returns: ids never seen before
nanoid(n) == 100 + n

\* toStoredModel(input), with the id nanoid() returns and the clock at t
toStoredModel(input, id, t) ==
  [id |-> id,
   name |-> input.name,
   faction |-> input.faction,
   modelCount |-> input.modelCount,
   command |-> input.command,
   state |-> input.state,
   imageUrl |-> <<>>,
   createdAt |-> t,
   updatedAt |-> t]

\* 'Unknown Unit'
StrUnknownUnit ==
  <<"U", "n", "k", "n", "o", "w", "n", " ", "U", "n", "i", "t">>

\* Number.isInteger(c[k]) && c[k] >= 0 ? c[k] : 0, on model?.command
SafeCountZero(item, k) ==
  IF Has(item, "command") /\ Has(item.command, k) /\ item.command[k] >= 0
    THEN item.command[k]
    ELSE 0

\* Number.isInteger(c[k]) && c[k] >= 0 ? c[k] : 1, on model?.command
SafeCount(item, k) ==
  IF Has(item, "command") /\ Has(item.command, k) /\ item.command[k] >= 0
    THEN item.command[k]
    ELSE 1

\* normalizedModel of readModels, were updatedAt set to the time of the load
NormalizeItemRestamped(item, freshId, t) ==
  [id |-> IF Has(item, "id") /\ item.id # 0 THEN item.id ELSE freshId,
   name |-> IF Has(item, "name") /\ Len(item.name) > 0 THEN item.name ELSE StrUnknownUnit,
   faction |-> IF Has(item, "faction") THEN item.faction ELSE <<>>,
   modelCount |-> IF Has(item, "modelCount") /\ item.modelCount > 0 THEN item.modelCount ELSE 1,
   command |-> [k \in CommandKeys |-> SafeCount(item, k)],
   state |-> IF Has(item, "state") /\ IsState(item.state) THEN item.state ELSE "Unbuilt",
   imageUrl |-> IF Has(item, "imageUrl") THEN item.imageUrl ELSE <<>>,
   createdAt |-> IF Has(item, "createdAt") THEN item.createdAt ELSE t,
   updatedAt |-> t]

\* normalizedModel of readModels, for an item of the parsed array
NormalizeItem(item, freshId, t) ==
  [id |-> IF Has(item, "id") /\ item.id # 0 THEN item.id ELSE freshId,
   name |-> IF Has(item, "name") /\ Len(item.name) > 0 THEN item.name ELSE StrUnknownUnit,
   faction |-> IF Has(item, "faction") THEN item.faction ELSE <<>>,
   modelCount |-> IF Has(item, "modelCount") /\ item.modelCount > 0 THEN item.modelCount ELSE 1,
   command |-> [k \in CommandKeys |-> SafeCount(item, k)],
   state |-> IF Has(item, "state") /\ IsState(item.state) THEN item.state ELSE "Unbuilt",
   imageUrl |-> IF Has(item, "imageUrl") THEN item.imageUrl ELSE <<>>,
   createdAt |-> IF Has(item, "createdAt") THEN item.createdAt ELSE t,
   updatedAt |-> IF Has(item, "updatedAt") THEN item.updatedAt ELSE t]

\* a !== b for the key k of the normalized model and of the item
KeyDiffers(norm, item, k) == ~Has(item, k) \/ norm[k] # item[k]

\* The condition under which readModels sets hasChanges for an item
ItemChanged(norm, item) ==
  \/ KeyDiffers(norm, item, "id")
  \/ KeyDiffers(norm, item, "state")
  \/ KeyDiffers(norm, item, "modelCount")
  \/ KeyDiffers(norm, item, "faction")
  \/ KeyDiffers(norm, item, "command")

\* Whether the item gets its id from nanoid()
NeedsId(item) == ~(Has(item, "id") /\ item.id # 0)

\* The number of nanoid() calls parsed.map makes on the first k items
RECURSIVE IdsUsed(_, _)
IdsUsed(items, k) ==
  IF k = 0 THEN 0
  ELSE IdsUsed(items, k - 1) + (IF NeedsId(items[k]) THEN 1 ELSE 0)

\* readModels() on the array `items` read from the data file, after n calls of
\* nanoid() and with the clock at t: the array it returns, whether it rewrote
\* the file with it, and the calls of nanoid() it made
readModels(items, rev, n, t) ==
  IF rev = "part_000"
    THEN [models |-> items, hasChanges |-> FALSE, ids |-> 0]
    ELSE LET norm == [i \in 1..Len(items) |->
                        NormalizeItem(items[i], nanoid(n + IdsUsed(items, i)), t)]
         IN  [models |-> norm,
              hasChanges |-> \E i \in 1..Len(items) : ItemChanged(norm[i], items[i]),
              ids |-> IdsUsed(items, Len(items))]

\* The data file after readModels(): rewritten when hasChanges
FileAfterRead(items, rd) == IF rd.hasChanges THEN rd.models ELSE items

\* models.findIndex((m) => m.id === id), from 1; 0 for -1
findIndex(models, id) ==
  IF \E i \in 1..Len(models) : Has(models[i], "id") /\ models[i].id = id
    THEN CHOOSE i \in 1..Len(models) :
           /\ Has(models[i], "id") /\ models[i].id = id
           /\ \A j \in 1..(i - 1) : ~(Has(models[j], "id") /\ models[j].id = id)
    ELSE 0

\* models[index].state = state; models[index].updatedAt = now
SetState(models, index, state, t) ==
  [models EXCEPT ![index] = Put(Put(@, "state", state), "updatedAt", t)]

\* models[index].imageUrl = imageUrl; models[index].updatedAt = now
SetImage(models, index, imageUrl, t) ==
  [models EXCEPT ![index] = Put(Put(@, "imageUrl", imageUrl), "updatedAt", t)]

\* The models toStoredModel makes of the parsed bodies, in order
CreatedModels(bodies, rev, n, t) ==
  [i \in 1..Len(bodies) |-> toStoredModel(InputData(bodies[i], rev), nanoid(n + i), t)]

(***************************************************************************)
(* Requests and stored data the server is run on                           *)
(***************************************************************************)

\* A URL findModelImage finds
ImageUrl == <<"u">>

\* What findModelImage returns: '' or a URL (the network and the file system are
\* taken not to fail)
ImageResults == {<<>>, ImageUrl}

\* The body the create form and the mass import send for a unit, with the keys
\* a client of the progress-tracking revision adds
BodyUnit ==
  [name |-> <<" ", "S">>, faction |-> <<"E">>, category |-> "Unit", modelCount |-> 2,
   progressCount |-> 1, details |-> <<"a", "x", "e">>,
   command |-> [champion |-> 1, musician |-> 0, bannerBearer |-> 1]]

\* A character, its command and faction left out
BodyCharacter ==
  [name |-> <<"L">>, category |-> "Character", modelCount |-> 1,
   details |-> <<"r", "o", "d">>, state |-> "Build"]

\* modelCount: 0
BodyZeroCount ==
  [name |-> <<"Z">>, faction |-> <<"E">>, category |-> "Unit", modelCount |-> 0,
   state |-> "Unbuilt"]

\* A name that is blank once trimmed
BodyBlankName == [name |-> <<" ">>, modelCount |-> 3]

\* modelCount: 501
BodyTooMany == [name |-> <<"T">>, modelCount |-> MaxModelCount + 1]

\* state: 'Done', which is none of the five states
BodyBadState == [name |-> <<"D">>, modelCount |-> 3, state |-> "Done"]

\* command: { champion: -1 }
BodyNegativeCount == [name |-> <<"N">>, modelCount |-> 3, command |-> [champion |-> 0 - 1]]

ValidBodies == {BodyUnit, BodyCharacter}

Bodies ==
  ValidBodies \cup {BodyZeroCount, BodyBlankName, BodyTooMany, BodyBadState, BodyNegativeCount}

\* The longest import array
MaxBatch == 2

RECURSIVE BodySeqs(_)
BodySeqs(n) ==
  IF n = 0 THEN {<<>>}
  ELSE LET shorter == BodySeqs(n - 1)
       IN  shorter \cup
             {Append(s, b) : s \in {x \in shorter : Len(x) = n - 1},
                             b \in {BodyUnit, BodyZeroCount}}

\* The import arrays: every array of up to MaxBatch bodies, each a unit or the
\* body with modelCount 0, the empty array included, and arrays of one body
\* that breaks another rule of the schema or leaves the command out
ImportBodies ==
  BodySeqs(MaxBatch) \cup
    {<<BodyBadState>>, <<BodyNegativeCount>>, <<BodyTooMany>>, <<BodyCharacter>>}

\* The bodies of a state update: each state, a name that is no state, no state key
StateBodies ==
  {[state |-> s] : s \in {"Unbuilt", "Build", "Done"}} \cup {[note |-> "x"]}

\* A unit stored by the revision that tracks progress: 3 of its 5 models done
StoredUnit ==
  [id |-> 1, name |-> <<"S">>, faction |-> <<"E">>, category |-> "Unit", modelCount |-> 5,
   progressCount |-> 3, details |-> <<"a", "x", "e">>,
   command |-> [champion |-> 1, musician |-> 1, bannerBearer |-> 0],
   state |-> "Unbuilt", imageUrl |-> <<>>, createdAt |-> 0, updatedAt |-> 0]

\* A character stored with a command group and no progress
StoredCharacter ==
  [id |-> 2, name |-> <<"L">>, faction |-> <<"E">>, category |-> "Character",
   modelCount |-> 2, progressCount |-> 0, details |-> <<>>,
   command |-> [champion |-> 1, musician |-> 1, bannerBearer |-> 1],
   state |-> "Painted", imageUrl |-> ImageUrl, createdAt |-> 0, updatedAt |-> 0]

\* A damaged item: no id, faction or timestamps, an empty name, modelCount 0, an
\* unknown state, a negative and two missing command counts, progress past the count
StoredDamaged ==
  [name |-> <<>>, modelCount |-> 0, progressCount |-> 9, state |-> "Done",
   command |-> [champion |-> 0 - 1]]

\* An item damaged only where readModels does not compare: an empty name and
\* no imageUrl or timestamps
StoredNameless ==
  [id |-> 3, name |-> <<>>, faction |-> <<"E">>, modelCount |-> 2,
   command |-> [champion |-> 0, musician |-> 0, bannerBearer |-> 0], state |-> "Build"]

StoredItems == {StoredUnit, StoredCharacter, StoredDamaged, StoredNameless}

\* The most items in the data file when the server starts
MaxStored == 1

RECURSIVE ItemSeqs(_)
ItemSeqs(n) ==
  IF n = 0 THEN {<<>>}
  ELSE LET shorter == ItemSeqs(n - 1)
       IN  shorter \cup
             {Append(s, b) : s \in {x \in shorter : Len(x) = n - 1}, b \in StoredItems}

\* The arrays the data file holds when the server starts: '[]' as ensureDataFile
\* writes it, or what an earlier run left
StoredFiles == ItemSeqs(MaxStored)

\* The most items the data file is let grow to
MaxRecords == 2

\* The last reading of the clock
MaxTime == 2

VARIABLES
  script,           \* the revision of app.js that runs
  text,             \* the argument of parseArmyListText
  lines,            \* its trimmed, non-empty lines
  parsedArmy,
  current,
  currentCategory,
  units,
  lineNo,           \* the index in lines of the line the main loop reads next
  ppc,              \* "call": not started, "loop": in the main loop, "done": returned
  revision,         \* the revision of the server that runs
  file,             \* the array in data/models.json
  nanoids,          \* the number of calls of nanoid() made
  now,              \* the clock
  timers,           \* the ids whose setTimeout callback of enqueueImageLookup is due
  tasks,            \* the handlers suspended at an await, when handlers interleave
  started,          \* the number of handlers started, when handlers interleave
  resp,             \* the last response sent
  acked             \* the ids of the models sent with a 201

parserVars == <<script, text, lines, parsedArmy, current, currentCategory, units, lineNo, ppc>>

serverVars == <<revision, file, nanoids, now, timers, tasks, started, resp, acked>>

vars == <<parserVars, serverVars>>

(***************************************************************************)
(* The parser as a state machine: one step per line of the main loop       *)
(***************************************************************************)

ParserIdle ==
  /\ lines = <<>>
  /\ parsedArmy = <<>>
  /\ current = Null
  /\ currentCategory = "Unit"
  /\ units = <<>>
  /\ lineNo = 1

ServerIdle ==
  /\ file = <<>>
  /\ nanoids = 0
  /\ now = 1
  /\ timers = <<>>
  /\ tasks = <<>>
  /\ started = 0
  /\ resp = [op |-> "none", status |-> 0]
  /\ acked = {}

\* The statements before the main loop
ParseBegin ==
  /\ ppc = "call"
  /\ lines' = TrimmedLines(text)
  /\ parsedArmy' = ParsedArmyOf(lines')
  /\ current' = LoopStart.current
  /\ currentCategory' = LoopStart.currentCategory
  /\ units' = LoopStart.units
  /\ lineNo' = 1
  /\ ppc' = "loop"
  /\ UNCHANGED <<script, text, serverVars>>

\* One iteration of the main loop
ParseLine ==
  /\ ppc = "loop"
  /\ lineNo <= Len(lines)
  /\ LET st == LoopBody([current |-> current,
                         currentCategory |-> currentCategory,
                         units |-> units],
                        lines[lineNo], parsedArmy, script)
     IN  /\ current' = st.current
         /\ currentCategory' = st.currentCategory
         /\ units' = st.units
  /\ lineNo' = lineNo + 1
  /\ UNCHANGED <<script, text, lines, parsedArmy, ppc, serverVars>>

\* The final flushCurrent() and the return
ParseReturn ==
  /\ ppc = "loop"
  /\ lineNo > Len(lines)
  /\ LET st == flushCurrent([current |-> current,
                             currentCategory |-> currentCategory,
                             units |-> units])
     IN  /\ current' = st.current
         /\ units' = st.units
  /\ ppc' = "done"
  /\ UNCHANGED <<script, text, lines, parsedArmy, currentCategory, lineNo, serverVars>>

InitParser ==
  /\ script \in Scripts
  /\ text \in Texts
  /\ ppc = "call"
  /\ ParserIdle
  /\ revision = "server.js"
  /\ ServerIdle

NextParser == ParseBegin \/ ParseLine \/ ParseReturn

\* parseArmyListText on each text of Texts
SpecParser == InitParser /\ [][NextParser]_vars

(***************************************************************************)
(* The server, one request handled at a time                               *)
(***************************************************************************)

Respond(op, status) == resp' = [op |-> op, status |-> status]

\* res.json(models[index]): the answer names the record and the state it has
RespondRecord(op, status, model) ==
  resp' = [op |-> op, status |-> status, id |-> model.id, state |-> model.state]

\* The ids a request can name: those of the stored items and one of no item
RequestIds ==
  {file[i].id : i \in {j \in 1..Len(file) : Has(file[j], "id")}} \cup {nanoid(0)}

\* GET /api/models
GetModels ==
  LET rd == readModels(file, revision, nanoids, now)
  IN  /\ file' = FileAfterRead(file, rd)
      /\ nanoids' = nanoids + rd.ids
      /\ Respond("load", 200)
      /\ UNCHANGED <<revision, now, timers, tasks, started, acked, parserVars>>

\* POST /api/models
PostModels(body) ==
  IF ~InputOk(body)
    THEN /\ Respond("create", 400)
         /\ UNCHANGED <<revision, file, nanoids, now, timers, tasks, started, acked, parserVars>>
    ELSE LET rd == readModels(file, revision, nanoids, now)
             model == toStoredModel(InputData(body, revision),
                                    nanoid(nanoids + rd.ids + 1), now)
         IN  /\ Len(file) < MaxRecords
             /\ IF revision = "server.js"
                  THEN /\ file' = Append(rd.models, model)
                       /\ timers' = Append(timers, model.id)
                  ELSE /\ \E found \in ImageResults :
                            file' = Append(rd.models, [model EXCEPT !.imageUrl = found])
                       /\ UNCHANGED timers
             /\ nanoids' = nanoids + rd.ids + 1
             /\ acked' = acked \cup {model.id}
             /\ Respond("create", 201)
             /\ UNCHANGED <<revision, now, tasks, started, parserVars>>

\* POST /api/models/import
PostImport(bodies) ==
  IF ~ImportOk(bodies)
    THEN /\ Respond("import", 400)
         /\ UNCHANGED <<revision, file, nanoids, now, timers, tasks, started, acked, parserVars>>
    ELSE LET rd == readModels(file, revision, nanoids, now)
             created == CreatedModels(bodies, revision, nanoids + rd.ids, now)
             ids == {created[i].id : i \in 1..Len(created)}
         IN  /\ Len(file) + Len(bodies) <= MaxRecords
             /\ IF revision = "server.js"
                  THEN /\ file' = rd.models \o created
                       /\ timers' = timers \o [i \in 1..Len(created) |-> created[i].id]
                  ELSE /\ \E found \in [1..Len(bodies) -> ImageResults] :
                            file' = rd.models \o
                                      [i \in 1..Len(created) |->
                                         [created[i] EXCEPT !.imageUrl = found[i]]]
                       /\ UNCHANGED timers
             /\ nanoids' = nanoids + rd.ids + Len(bodies)
             /\ acked' = acked \cup ids
             /\ Respond("import", 201)
             /\ UNCHANGED <<revision, now, tasks, started, parserVars>>

\* PATCH /api/models/:id/state
PatchState(id, body) ==
  IF ~(Has(body, "state") /\ IsState(body.state))
    THEN /\ Respond("state", 400)
         /\ UNCHANGED <<revision, file, nanoids, now, timers, tasks, started, acked, parserVars>>
    ELSE LET rd == readModels(file, revision, nanoids, now)
             index == findIndex(rd.models, id)
         IN  /\ nanoids' = nanoids + rd.ids
             /\ IF index = 0
                  THEN /\ file' = FileAfterRead(file, rd)
                       /\ Respond("state", 404)
                  ELSE /\ file' = SetState(rd.models, index, body.state, now)
                       /\ RespondRecord("state", 200, file'[index])
             /\ UNCHANGED <<revision, now, timers, tasks, started, acked, parserVars>>

\* POST /api/models/:id/refresh-image
RefreshImage(id) ==
  LET rd == readModels(file, revision, nanoids, now)
      index == findIndex(rd.models, id)
  IN  /\ nanoids' = nanoids + rd.ids
      /\ IF index = 0
           THEN /\ file' = FileAfterRead(file, rd)
                /\ Respond("refresh", 404)
           ELSE /\ \E found \in ImageResults : file' = SetImage(rd.models, index, found, now)
                /\ RespondRecord("refresh", 200, file'[index])
      /\ UNCHANGED <<revision, now, timers, tasks, started, acked, parserVars>>

\* The setTimeout callback of enqueueImageLookup(modelId)
ImageLookup ==
  /\ Len(timers) > 0
  /\ timers' = Tail(timers)
  /\ LET rd == readModels(file, revision, nanoids, now)
         index == findIndex(rd.models, Head(timers))
     IN  /\ nanoids' = nanoids + rd.ids
         /\ IF index = 0 \/ Len(rd.models[index].imageUrl) > 0
              THEN file' = FileAfterRead(file, rd)
              ELSE \E found \in ImageResults :
                     IF found = <<>>
                       THEN file' = FileAfterRead(file, rd)
                       ELSE file' = SetImage(rd.models, index, found, now)
  /\ UNCHANGED <<revision, now, resp, tasks, started, acked, parserVars>>

\* Time passes
Tick ==
  /\ now < MaxTime
  /\ now' = now + 1
  /\ UNCHANGED <<revision, file, nanoids, timers, tasks, started, resp, acked, parserVars>>

Init ==
  /\ revision \in Revisions
  /\ file \in StoredFiles
  /\ nanoids = 0
  /\ now = 1
  /\ timers = <<>>
  /\ tasks = <<>>
  /\ started = 0
  /\ resp = [op |-> "none", status |-> 0]
  /\ acked = {}
  /\ script = ScriptNew
  /\ text = <<>>
  /\ ppc = "idle"
  /\ ParserIdle

Next ==
  \/ GetModels
  \/ \E body \in Bodies : PostModels(body)
  \/ \E bodies \in ImportBodies : PostImport(bodies)
  \/ \E id \in RequestIds, body \in StateBodies : PatchState(id, body)
  \/ \E id \in RequestIds : RefreshImage(id)
  \/ ImageLookup
  \/ Tick

\* The server from any stored file, each request handled before the next arrives
Spec == Init /\ [][Next]_vars
(***************************************************************************)
(* The server with handlers that interleave at their awaits                *)
(*                                                                         *)
(* A handler runs from one await to the next without interruption.  tasks  *)
(* holds the handlers that have not ended: pc names the await a handler is *)
(* suspended at, "read" the readFile of readModels, "repair" the           *)
(* writeModels of readModels, "fetch" findModelImage, "write" the          *)
(* handler's own writeModels.                                              *)
(***************************************************************************)

\* The most handlers started
MaxTasks == 3

\* seq without its k-th task: the handler has ended
Ended(seq, k) == SubSeq(seq, 1, k - 1) \o SubSeq(seq, k + 1, Len(seq))

\* The handler's code up to `await readModels()`: validation and the early 400
BeginLoad ==
  /\ started < MaxTasks
  /\ started' = started + 1
  /\ tasks' = Append(tasks, [op |-> "load", pc |-> "read"])
  /\ UNCHANGED <<revision, file, nanoids, now, timers, resp, acked, parserVars>>

BeginCreate(body) ==
  IF ~InputOk(body)
    THEN /\ Respond("create", 400)
         /\ UNCHANGED <<revision, file, nanoids, now, timers, tasks, started, acked, parserVars>>
    ELSE /\ started < MaxTasks
         /\ started' = started + 1
         /\ tasks' = Append(tasks, [op |-> "create", pc |-> "read", bodies |-> <<body>>])
         /\ UNCHANGED <<revision, file, nanoids, now, timers, resp, acked, parserVars>>

BeginImport(bodies) ==
  IF ~ImportOk(bodies)
    THEN /\ Respond("import", 400)
         /\ UNCHANGED <<revision, file, nanoids, now, timers, tasks, started, acked, parserVars>>
    ELSE /\ started < MaxTasks
         /\ started' = started + 1
         /\ tasks' = Append(tasks, [op |-> "import", pc |-> "read", bodies |-> bodies])
         /\ UNCHANGED <<revision, file, nanoids, now, timers, resp, acked, parserVars>>

BeginPatch(id, body) ==
  IF ~(Has(body, "state") /\ IsState(body.state))
    THEN /\ Respond("state", 400)
         /\ UNCHANGED <<revision, file, nanoids, now, timers, tasks, started, acked, parserVars>>
    ELSE /\ started < MaxTasks
         /\ started' = started + 1
         /\ tasks' = Append(tasks, [op |-> "state", pc |-> "read", id |-> id,
                                    state |-> body.state])
         /\ UNCHANGED <<revision, file, nanoids, now, timers, resp, acked, parserVars>>

BeginRefresh(id) ==
  /\ started < MaxTasks
  /\ started' = started + 1
  /\ tasks' = Append(tasks, [op |-> "refresh", pc |-> "read", id |-> id])
  /\ UNCHANGED <<revision, file, nanoids, now, timers, resp, acked, parserVars>>

\* The setTimeout callback of enqueueImageLookup starts
BeginLookup ==
  /\ Len(timers) > 0
  /\ started < MaxTasks
  /\ started' = started + 1
  /\ timers' = Tail(timers)
  /\ tasks' = Append(tasks, [op |-> "lookup", pc |-> "read", id |-> Head(timers)])
  /\ UNCHANGED <<revision, file, nanoids, now, resp, acked, parserVars>>

\* The handler of tasks[k] from the return of `await readModels()`, which gave
\* `models` after `ids` calls of nanoid() in all, to its next await or its end
AfterRead(k, models, ids) ==
  LET task == tasks[k]
      index == IF Has(task, "id") THEN findIndex(models, task.id) ELSE 0
  IN  CASE task.op = "load" ->
             /\ tasks' = Ended(tasks, k)
             /\ nanoids' = ids
             /\ Respond("load", 200)
        [] task.op \in {"create", "import"} ->
             /\ tasks' = [tasks EXCEPT ![k] =
                            [op |-> task.op,
                             pc |-> IF revision = "server.js" THEN "write" ELSE "fetch",
                             models |-> models,
                             created |-> CreatedModels(task.bodies, revision, ids, now)]]
             /\ nanoids' = ids + Len(task.bodies)
             /\ UNCHANGED resp
        [] task.op = "state" ->
             /\ nanoids' = ids
             /\ IF index = 0
                  THEN /\ tasks' = Ended(tasks, k)
                       /\ Respond("state", 404)
                  ELSE /\ tasks' = [tasks EXCEPT ![k] =
                                      [op |-> "state", pc |-> "write",
                                       models |-> SetState(models, index, task.state, now),
                                       index |-> index]]
                       /\ UNCHANGED resp
        [] task.op = "refresh" ->
             /\ nanoids' = ids
             /\ IF index = 0
                  THEN /\ tasks' = Ended(tasks, k)
                       /\ Respond("refresh", 404)
                  ELSE /\ tasks' = [tasks EXCEPT ![k] =
                                      [op |-> "refresh", pc |-> "fetch", models |-> models,
                                       index |-> index]]
                       /\ UNCHANGED resp
        [] task.op = "lookup" ->
             /\ nanoids' = ids
             /\ UNCHANGED resp
             /\ IF index = 0 \/ Len(models[index].imageUrl) > 0
                  THEN tasks' = Ended(tasks, k)
                  ELSE tasks' = [tasks EXCEPT ![k] =
                                   [op |-> "lookup", pc |-> "fetch", models |-> models,
                                    index |-> index]]

\* fs.readFile of readModels completes for tasks[k]: without changes to write,
\* readModels returns and the handler goes on
ReadStep(k) ==
  /\ tasks[k].pc = "read"
  /\ LET rd == readModels(file, revision, nanoids, now)
     IN  IF rd.hasChanges
           THEN /\ tasks' = [tasks EXCEPT ![k] =
                               [f \in DOMAIN @ \cup {"models"} |->
                                  IF f = "models" THEN rd.models
                                  ELSE IF f = "pc" THEN "repair" ELSE @[f]]]
                /\ nanoids' = nanoids + rd.ids
                /\ UNCHANGED resp
           ELSE AfterRead(k, rd.models, nanoids + rd.ids)
  /\ UNCHANGED <<revision, file, now, timers, started, acked, parserVars>>

\* `await writeModels(normalized)` of readModels completes for tasks[k]
RepairStep(k) ==
  /\ tasks[k].pc = "repair"
  /\ file' = tasks[k].models
  /\ AfterRead(k, tasks[k].models, nanoids)
  /\ UNCHANGED <<revision, now, timers, started, acked, parserVars>>

\* `await findModelImage(...)` returns for tasks[k]
FetchStep(k) ==
  /\ tasks[k].pc = "fetch"
  /\ LET task == tasks[k]
     IN  CASE task.op \in {"create", "import"} ->
                \E found \in [1..Len(task.created) -> ImageResults] :
                  tasks' = [tasks EXCEPT ![k] =
                              [task EXCEPT
                                 !.pc = "write",
                                 !.created = [i \in 1..Len(task.created) |->
                                                [task.created[i] EXCEPT !.imageUrl = found[i]]]]]
           [] task.op = "refresh" ->
                \E found \in ImageResults :
                  tasks' = [tasks EXCEPT ![k] =
                              [task EXCEPT
                                 !.pc = "write",
                                 !.models = SetImage(task.models, task.index, found, now)]]
           [] task.op = "lookup" ->
                \E found \in ImageResults :
                  IF found = <<>>
                    THEN tasks' = Ended(tasks, k)
                    ELSE tasks' = [tasks EXCEPT ![k] =
                                     [task EXCEPT
                                        !.pc = "write",
                                        !.models = SetImage(task.models, task.index, found, now)]]
  /\ UNCHANGED <<revision, file, nanoids, now, timers, started, resp, acked, parserVars>>

\* The handler's `await writeModels(...)` completes for tasks[k], and the
\* handler runs to its end
WriteStep(k) ==
  /\ tasks[k].pc = "write"
  /\ tasks' = Ended(tasks, k)
  /\ LET task == tasks[k]
     IN  IF task.op \in {"create", "import"}
           THEN LET ids == [i \in 1..Len(task.created) |-> task.created[i].id]
                IN  /\ file' = task.models \o task.created
                    /\ timers' = IF revision = "server.js" THEN timers \o ids ELSE timers
                    /\ acked' = acked \cup {ids[i] : i \in 1..Len(ids)}
                    /\ Respond(task.op, 201)
           ELSE /\ file' = task.models
                /\ IF task.op = "lookup"
                     THEN UNCHANGED resp
                     ELSE RespondRecord(task.op, 200, task.models[task.index])
                /\ UNCHANGED <<timers, acked>>
  /\ UNCHANGED <<revision, nanoids, now, started, parserVars>>

\* The bodies of the requests that interleave: valid ones, as a request that
\* fails validation is answered before its handler's first await
ConcBodies == {BodyUnit}

ConcStateBodies == {[state |-> "Build"]}

NextConc ==
  \/ BeginLoad
  \/ \E body \in ConcBodies : BeginCreate(body)
  \/ \E body \in ConcBodies : BeginImport(<<body>>)
  \/ \E id \in RequestIds, body \in ConcStateBodies : BeginPatch(id, body)
  \/ \E id \in RequestIds : BeginRefresh(id)
  \/ BeginLookup
  \/ \E k \in 1..Len(tasks) : ReadStep(k)
  \/ \E k \in 1..Len(tasks) : RepairStep(k)
  \/ \E k \in 1..Len(tasks) : FetchStep(k)
  \/ \E k \in 1..Len(tasks) : WriteStep(k)

\* The server from any stored file, its handlers interleaved at their awaits
SpecConc == Init /\ [][NextConc]_vars

(***************************************************************************)
(* The parser scenario                                                     *)
(***************************************************************************)

\* 'Magic Lord'
StrMagicLord ==
  <<"M", "a", "g", "i", "c", " ", "L", "o", "r", "d">>

\* 'General'
StrGeneral ==
  <<"G", "e", "n", "e", "r", "a", "l">>

\* 'Spearmen'
StrSpearmen ==
  <<"S", "p", "e", "a", "r", "m", "e", "n">>

\* 'Musician\nChampion'
StrMusicianChampion ==
  <<"M", "u", "s", "i", "c", "i", "a", "n", "\n", "C", "h", "a", "m", "p", "i", "o", "n">>

\* The two entries the scenario names
ScenarioEntries ==
  <<[category |-> "Character",
     name |-> StrMagicLord,
     modelCount |-> 1,
     details |-> StrGeneral,
     command |-> [champion |-> 0, musician |-> 0, bannerBearer |-> 0]],
    [category |-> "Unit",
     name |-> StrSpearmen,
     modelCount |-> 5,
     details |-> StrMusicianChampion,
     command |-> [champion |-> 1, musician |-> 1, bannerBearer |-> 0]]>>

\* C1: parsing the seven-line scenario text yields exactly two entries, in
\* this order: the Character "Magic Lord" with modelCount 1, details "General"
\* and an all-zero command, then the Unit "Spearmen" with modelCount 5,
\* details "Musician\nChampion" and command champion 1, musician 1,
\* bannerBearer 0.
ScenarioYieldsTwoEntries ==
  (text = ScenarioText /\ ppc = "done") => units = ScenarioEntries

(***************************************************************************)
(* Lines of no kind                                                        *)
(***************************************************************************)

\* A line that starts an entry wherever it stands: a header with or without a
\* count that is neither a section line nor a divider
IsEntryHeader(line) ==
  /\ ~sectionMatch(line).ok
  /\ ~IsDivider(line)
  /\ \/ withCountMatch(line).ok
     \/ singleMatch(line).ok /\ ~StartsWith(line, <<"[">>)

\* A line that matches no pattern of the parser: no section line, no divider,
\* no `<name> [n pts]` line and no "-" line
IsUnmatched(line) ==
  /\ ~sectionMatch(line).ok
  /\ ~IsDivider(line)
  /\ ~armyMatch(line).ok
  /\ ~StartsWith(line, <<"-">>)

MatchedLines(ls) == SelectSeq(ls, LAMBDA l : ~IsUnmatched(l))

\* C7: a text without an entry-header line parses to the empty entry list, and
\* the entries of any text are those of the text without its lines that match
\* no pattern.
UnmatchedLinesSkipped ==
  ppc = "done" =>
    /\ (\A i \in 1..Len(lines) : ~IsEntryHeader(lines[i])) => units = <<>>
    /\ (\E i \in 1..Len(lines) : IsUnmatched(lines[i])) =>
         units = parseArmyListText(JoinLines(MatchedLines(lines)), script).units

\* A text whose unmatched line stands between a header and its detail line:
\* the entry still collects the detail line's command flag
UnmatchedLineBetweenHeaderAndDetail ==
  /\ ppc = "done"
  /\ Len(lines) = 3
  /\ IsEntryHeader(lines[1])
  /\ IsUnmatched(lines[2])
  /\ StartsWith(lines[3], <<"-">>) /\ ~IsDivider(lines[3])
  /\ Len(units) = 1
  /\ units[1].command.champion = 1

(***************************************************************************)
(* Detail lines                                                            *)
(***************************************************************************)

RECURSIVE LeadDashes(_)
LeadDashes(s) == IF s # <<>> /\ Head(s) = "-" THEN 1 + LeadDashes(Tail(s)) ELSE 0

\* A "-" line without its leading dashes and the white space around the rest
StripDashes(line) == Trim(SubSeq(line, LeadDashes(line) + 1, Len(line)))

\* The details that an entry carries, '' for an entry without the field
DetailsOf(entry) == IF Has(entry, "details") THEN entry.details ELSE <<>>

\* The line of this iteration is a "-" line under an entry in progress, and no
\* section line, divider or header
AtDetailLine ==
  /\ ppc = "loop"
  /\ lineNo <= Len(lines)
  /\ current # Null
  /\ StartsWith(lines[lineNo], <<"-">>)
  /\ ~sectionMatch(lines[lineNo]).ok
  /\ ~IsDivider(lines[lineNo])
  /\ ~IsEntryHeader(lines[lineNo])

\* C8: the details of an entry are exactly the "-" lines between its header
\* and the next flush, in source order, joined by newlines, their leading
\* dashes stripped, for Character and Unit entries alike: an entry starts
\* with empty details, each "-" line under it appends its stripped text, and
\* no other line changes them.
DetailsAreTheDashLines ==
  [][/\ (current' # Null /\ current' # current /\ ~AtDetailLine) =>
          (Has(current', "details") /\ current'.details = <<>>)
     /\ AtDetailLine =>
          /\ Has(current', "details")
          /\ current'.details =
               IF DetailsOf(current) = <<>>
                 THEN StripDashes(lines[lineNo])
                 ELSE DetailsOf(current) \o <<"\n">> \o StripDashes(lines[lineNo])
     /\ (units' # units) =>
          /\ Has(units'[Len(units')], "details")
          /\ units'[Len(units')].details = DetailsOf(current)]_vars

(***************************************************************************)
(* The transition gate and the progress invariants                         *)
(***************************************************************************)

\* The stored item is a Unit with fewer models done than it has
IsPartialUnit(item) ==
  /\ Has(item, "category") /\ item.category = "Unit"
  /\ Has(item, "progressCount") /\ Has(item, "modelCount")
  /\ item.progressCount < item.modelCount

\* The stored item is a Unit with all its models done
IsCompleteUnit(item) ==
  /\ Has(item, "category") /\ item.category = "Unit"
  /\ Has(item, "progressCount") /\ Has(item, "modelCount")
  /\ item.progressCount = item.modelCount

\* C2: a state update that names a state other than the initial one is
\* rejected, the stored state left as it was, for a Unit whose progressCount
\* is below its modelCount, and accepted once the two are equal.
TransitionGate ==
  [][\A id \in RequestIds, body \in StateBodies :
       (/\ resp'.op = "state"
        /\ PatchState(id, body)
        /\ Has(body, "state") /\ IsState(body.state) /\ body.state # states[1]
        /\ findIndex(file, id) # 0) =>
         LET i == findIndex(file, id)
         IN  /\ IsPartialUnit(file[i]) =>
                  (resp'.status # 200 /\ file'[i].state = file[i].state)
             /\ IsCompleteUnit(file[i]) =>
                  (resp'.status = 200 /\ file'[i].state = body.state)]_vars

\* C3: after any create, import, state update or load, every stored record
\* has a progressCount, and 0 <= progressCount <= modelCount.
ProgressWithinCount ==
  resp.op \in {"create", "import", "state", "load"} =>
    \A i \in 1..Len(file) :
      /\ Has(file[i], "progressCount")
      /\ Has(file[i], "modelCount")
      /\ 0 <= file[i].progressCount
      /\ file[i].progressCount <= file[i].modelCount

\* A record of a Character is complete and has no command group
IsCompleteCharacter(item) ==
  /\ Has(item, "progressCount")
  /\ Has(item, "modelCount")
  /\ item.progressCount = item.modelCount
  /\ Has(item, "command")
  /\ item.command = [champion |-> 0, musician |-> 0, bannerBearer |-> 0]

\* C4: a stored record whose category is Character has progressCount equal to
\* modelCount and an all-zero command, both after the repair pass of a load
\* and when it is freshly created from an entry of category Character.
CharactersAreComplete ==
  [][/\ (resp'.op = "load" /\ GetModels) =>
          \A i \in 1..Len(file') :
            (Has(file'[i], "category") /\ file'[i].category = "Character") =>
              IsCompleteCharacter(file'[i])
     /\ \A body \in Bodies :
          (/\ resp' = [op |-> "create", status |-> 201]
           /\ PostModels(body)
           /\ Has(body, "category") /\ body.category = "Character") =>
            IsCompleteCharacter(file'[Len(file')])]_vars

(***************************************************************************)
(* Batch import                                                            *)
(***************************************************************************)

\* The ids of the stored items
StoredIds(items) == {items[i].id : i \in {j \in 1..Len(items) : Has(items[j], "id")}}

RepairIdempotent ==
  \A t \in now..MaxTime :
    LET first == readModels(file, revision, nanoids, now)
        second == readModels(first.models, revision, nanoids + first.ids, t)
    IN  /\ second.models = first.models
        /\ ~second.hasChanges
        /\ second.ids = 0

\* A load has repaired a damaged item and rewritten the store with it
RepairedStore ==
  /\ revision = "server.js"
  /\ resp = [op |-> "load", status |-> 200]
  /\ Len(file) >= 1
  /\ file[1].id = nanoid(1)
  /\ file[1].name = StrUnknownUnit
  /\ now > 1

(***************************************************************************)
(* Details                                                                 *)
(***************************************************************************)

\* C9: the details sent with an entry at creation or import are stored with
\* its record, and a later load leaves them as they are.
DetailsAreStored ==
  [][/\ \A body \in Bodies :
          (/\ resp' = [op |-> "create", status |-> 201]
           /\ PostModels(body)
           /\ Has(body, "details")) =>
            /\ Has(file'[Len(file')], "details")
            /\ file'[Len(file')].details = body.details
     /\ \A bodies \in ImportBodies :
          (/\ resp' = [op |-> "import", status |-> 201]
           /\ PostImport(bodies)) =>
            \A i \in 1..Len(bodies) :
              Has(bodies[i], "details") =>
                /\ Has(file'[Len(file) + i], "details")
                /\ file'[Len(file) + i].details = bodies[i].details
     /\ (resp'.op = "load" /\ GetModels) =>
          \A i \in 1..Len(file) :
            Has(file[i], "details") =>
              /\ Has(file'[i], "details")
              /\ file'[i].details = file[i].details]_vars

(***************************************************************************)
(* Records under interleaved handlers                                      *)
(***************************************************************************)

\* C10: no record is ever removed: under every interleaving of create,
\* import, state-update, refresh-image and load handlers and background image
\* lookups, a record whose creation was answered with 201 is in the store,
\* under the same id, for every load that reads the store from then on.
AckedRecordsStay ==
  \A id \in acked : \E i \in 1..Len(file) : Has(file[i], "id") /\ file[i].id = id


(***************************************************************************)
(* State updates under interleaved handlers                                *)
(***************************************************************************)

\* The store holds the record that the answer `ack` names, in the state the
\* answer names
HoldsAcked(items, ack) ==
  \E i \in 1..Len(items) :
    /\ Has(items[i], "id") /\ items[i].id = ack.id
    /\ Has(items[i], "state") /\ items[i].state = ack.state

\* C11: once a state update of a record is answered with 200, the store keeps
\* the record in that state through every step that is not the answer to a
\* later state update, so that every later load returns it: a request or a
\* background image lookup that read the store before the update does not
\* write the earlier state back.
AckedStateStays ==
  [][(/\ resp.op = "state" /\ resp.status = 200
      /\ HoldsAcked(file, resp)
      /\ ~(resp'.op = "state" /\ resp' # resp)) =>
       HoldsAcked(file', resp)]_vars

(***************************************************************************)
(* The fields of created records                                           *)
(***************************************************************************)

\* The body breaks a rule on modelCount, state or command counts
BreaksFieldRule(body) ==
  \/ ~Has(body, "modelCount")
  \/ body.modelCount < 1
  \/ body.modelCount > 500
  \/ Has(body, "state") /\ body.state \notin {states[i] : i \in 1..Len(states)}
  \/ /\ Has(body, "command")
     /\ \E k \in DOMAIN body.command : body.command[k] < 0

\* The record made for the body has a modelCount of 1 to 500, a state of the
\* set, 'Unbuilt' when the body names none, and three counts of 0 or more
FieldsAsRuled(record, body) ==
  /\ record.modelCount \in 1..500
  /\ record.state \in {states[i] : i \in 1..Len(states)}
  /\ ~Has(body, "state") => record.state = "Unbuilt"
  /\ DOMAIN record.command = {"champion", "musician", "bannerBearer"}
  /\ \A k \in DOMAIN record.command : record.command[k] \in Nat

\* C12: every record created by a single create or an import has a modelCount
\* in [1, 500], a state of the fixed set ('Unbuilt' when the request names
\* none) and command counts of 0 or more; a request that breaks one of these
\* rules is answered 400 and leaves the store as it was.
CreatedFieldsAsRuled ==
  [][/\ \A body \in Bodies :
          (resp'.op = "create" /\ PostModels(body)) =>
            /\ BreaksFieldRule(body) => (resp'.status = 400 /\ file' = file)
            /\ resp'.status = 201 =>
                 (Len(file') = Len(file) + 1 /\ FieldsAsRuled(file'[Len(file')], body))
     /\ \A bodies \in ImportBodies :
          (resp'.op = "import" /\ PostImport(bodies)) =>
            /\ (\E i \in 1..Len(bodies) : BreaksFieldRule(bodies[i])) =>
                 (resp'.status = 400 /\ file' = file)
            /\ resp'.status = 201 =>
                 /\ Len(file') = Len(file) + Len(bodies)
                 /\ \A i \in 1..Len(bodies) :
                      FieldsAsRuled(file'[Len(file) + i], bodies[i])]_vars

\* A create that names no state was answered 201, and a create or import that
\* broke a rule was answered 400 later on
CreatedThenRejected ==
  /\ resp.status = 400
  /\ resp.op \in {"create", "import"}
  /\ Len(file) >= 1
  /\ Has(file[Len(file)], "id")
  /\ file[Len(file)].id \in acked
  /\ file[Len(file)].state = "Unbuilt"
  /\ file[Len(file)].modelCount = 2

(***************************************************************************)
(* The command of a request that names none                                *)
(***************************************************************************)

\* C18: when the request leaves the command out, the record of a single
\* create has the command counts 1, 1, 1 and the record of an import has the
\* command counts 0, 0, 0.
OmittedCommandDefaults ==
  [][/\ \A body \in Bodies :
          (/\ resp' = [op |-> "create", status |-> 201]
           /\ ~Has(body, "command")
           /\ PostModels(body)) =>
            file'[Len(file')].command = [champion |-> 1, musician |-> 1, bannerBearer |-> 1]
     /\ \A bodies \in ImportBodies :
          (/\ resp' = [op |-> "import", status |-> 201]
           /\ PostImport(bodies)) =>
            \A i \in 1..Len(bodies) :
              ~Has(bodies[i], "command") =>
                file'[Len(file) + i].command =
                  [champion |-> 0, musician |-> 0, bannerBearer |-> 0]]_vars

(***************************************************************************)
(* The frame of a state update                                             *)
(***************************************************************************)

\* The record `after` is the record `before` but for its state and updatedAt
SameButState(before, after) ==
  /\ DOMAIN after \ {"state", "updatedAt"} = DOMAIN before \ {"state", "updatedAt"}
  /\ \A k \in DOMAIN before \ {"state", "updatedAt"} : after[k] = before[k]

\* C19: an accepted state update changes only the state and updatedAt of the
\* record with the requested id, and leaves every other field of that record
\* and every other record as they were; a request with an id of no record or
\* with a state outside the fixed set is answered with an error and changes
\* nothing in the store.
StateUpdateFrame ==
  [][\A id \in RequestIds, body \in StateBodies :
       (resp'.op = "state" /\ PatchState(id, body)) =>
         /\ resp'.status = 200 =>
              LET index == findIndex(file, id)
              IN  /\ index # 0
                  /\ Len(file') = Len(file)
                  /\ file'[index].state = body.state
                  /\ file'[index].updatedAt = now
                  /\ SameButState(file[index], file'[index])
                  /\ \A i \in 1..Len(file) : i # index => file'[i] = file[i]
         /\ (\/ findIndex(file, id) = 0
             \/ ~Has(body, "state")
             \/ body.state \notin {states[i] : i \in 1..Len(states)}) =>
              (resp'.status \in {400, 404} /\ file' = file)]_vars

(***************************************************************************)
(* The records a load returns                                              *)
(***************************************************************************)

\* The returned record has an id, a state, a modelCount and three command
\* counts that are valid, each the stored one where that was valid and the
\* replacement where it was not, and the other stored fields of the record
\* form as they were
ReturnedAsRuled(stored, returned) ==
  /\ returned.id # 0
  /\ (Has(stored, "id") /\ stored.id # 0) => returned.id = stored.id
  /\ returned.state \in {states[i] : i \in 1..Len(states)}
  /\ returned.state =
       IF Has(stored, "state") /\ stored.state \in {states[i] : i \in 1..Len(states)}
         THEN stored.state
         ELSE "Unbuilt"
  /\ returned.modelCount =
       IF Has(stored, "modelCount") /\ stored.modelCount >= 1 THEN stored.modelCount ELSE 1
  /\ DOMAIN returned.command = {"champion", "musician", "bannerBearer"}
  /\ \A k \in DOMAIN returned.command :
       returned.command[k] =
         IF Has(stored, "command") /\ Has(stored.command, k) /\ stored.command[k] >= 0
           THEN stored.command[k]
           ELSE 1
  /\ \A k \in {"name", "faction", "imageUrl", "createdAt", "updatedAt"} :
       (Has(stored, k) /\ (k = "name" => stored.name # <<>>)) => returned[k] = stored[k]

IsNameWithPoints(line) == armyMatch(line).ok /\ ~StartsWith(line, <<"+", "+">>)

\* The number of the army-name line among the trimmed lines, 0 without one
ArmyLineNo(ls) ==
  IF \E i \in 1..Len(ls) : IsNameWithPoints(ls[i])
    THEN CHOOSE i \in 1..Len(ls) :
           IsNameWithPoints(ls[i]) /\ \A j \in 1..(i - 1) : ~IsNameWithPoints(ls[j])
    ELSE 0

\* The main loop is at the army-name line
AtArmyLine == ppc = "loop" /\ lineNo <= Len(lines) /\ lineNo = ArmyLineNo(lines)

\* C13: the army-name line is captured as the parsed army name and starts no
\* entry, in every text, also when the line begins with an integer: the
\* iteration of the main loop on that line leaves the entry in progress as it
\* was or flushed, and the parsed army name is the line's name.
ArmyLineStartsNoEntry ==
  [][AtArmyLine =>
       /\ parsedArmy = Trim(armyMatch(lines[lineNo]).g1)
       /\ current' \in {current, Null}
       /\ Len(units') = Len(units)]_vars

(***************************************************************************)
(* Entry headers without a count                                           *)
(***************************************************************************)

\* The main loop is at a line '<name> [<n> pts]' with no leading count that
\* is not the army-name line, starts with no "[" and is no section line or
\* divider
AtCountlessHeader ==
  /\ ppc = "loop"
  /\ lineNo <= Len(lines)
  /\ lineNo # ArmyLineNo(lines)
  /\ singleMatch(lines[lineNo]).ok
  /\ ~withCountMatch(lines[lineNo]).ok
  /\ ~StartsWith(lines[lineNo], <<"[">>)
  /\ ~sectionMatch(lines[lineNo]).ok
  /\ ~IsDivider(lines[lineNo])

\* C14: every line '<name> [<n> pts]' without a leading count that is not the
\* army-name line and does not start with "[" flushes the entry in progress
\* and starts an entry of that name with modelCount 1 in the current
\* category, also a later line whose name equals the parsed army name.
CountlessHeaderStartsEntry ==
  [][AtCountlessHeader =>
       /\ Len(units') = Len(units) + (IF current = Null THEN 0 ELSE 1)
       /\ current # Null => units'[Len(units')].name = current.name
       /\ current' # Null
       /\ current'.name = Trim(singleMatch(lines[lineNo]).g1)
       /\ current'.modelCount = 1
       /\ current'.category = currentCategory]_vars

(***************************************************************************)
(* Command counts of a Unit entry                                          *)
(***************************************************************************)

\* The line starts an entry when the main loop reaches it
StartsEntry(line, army) ==
  /\ ~sectionMatch(line).ok
  /\ ~IsDivider(line)
  /\ \/ withCountMatch(line).ok
     \/ /\ singleMatch(line).ok
        /\ ~StartsWith(line, <<"[">>)
        /\ Trim(singleMatch(line).g1) # army

\* The number of the header line of the entry in progress
HeaderNo ==
  CHOOSE h \in 1..(lineNo - 1) :
    /\ StartsEntry(lines[h], parsedArmy)
    /\ \A j \in (h + 1)..(lineNo - 1) : ~StartsEntry(lines[j], parsedArmy)

\* The detail lines the entry in progress has had: the "-" lines after its
\* header
DetailLinesOfCurrent ==
  {lines[j] : j \in {i \in (HeaderNo + 1)..(lineNo - 1) : StartsWith(lines[i], <<"-">>)}}

\* The count the keywords of the detail lines ls give: 1 when a line has one
KeywordCounts(ls) ==
  [champion |-> IF \E l \in ls : \/ Includes(ToLower(l), KwChampion)
                                 \/ Includes(ToLower(l), KwPreceptor)
                                 \/ Includes(ToLower(l), KwSergeant)
                  THEN 1 ELSE 0,
   musician |-> IF \E l \in ls : Includes(ToLower(l), KwMusician) THEN 1 ELSE 0,
   bannerBearer |-> IF \E l \in ls : \/ Includes(ToLower(l), KwStandardBearer)
                                     \/ Includes(ToLower(l), KwBannerBearer)
                                     \/ IncludesWord(ToLower(l), KwBanner)
                      THEN 1 ELSE 0]

\* C15: while a Unit entry is being built, each of its command counts is 0 or
\* 1, and is 1 exactly when a detail line the entry has had contains one of
\* the count's keywords, so that a count once 1 stays 1; the entry is flushed
\* with these counts.
CommandCountsFollowKeywords ==
  [][/\ (ppc = "loop" /\ current # Null /\ current.category = "Unit") =>
          /\ \A k \in DOMAIN current.command : current.command[k] \in {0, 1}
          /\ current.command = KeywordCounts(DetailLinesOfCurrent)
     /\ (ppc = "loop" /\ current # Null /\ current.category = "Unit" /\ units' # units) =>
          /\ units' = Append(units, units'[Len(units')])
          /\ units'[Len(units')].command = KeywordCounts(DetailLinesOfCurrent)]_vars

\* A Unit entry was returned with the counts of two of its three detail lines
TwoFlagsSet ==
  /\ ppc = "done"
  /\ Len(lines) = 4
  /\ Len(units) = 1
  /\ units[1].category = "Unit"
  /\ units[1].command = [champion |-> 1, musician |-> 0, bannerBearer |-> 1]

(***************************************************************************)
(* Categories                                                              *)
(***************************************************************************)

\* The section headers among the first n lines
SectionNos(n) == {j \in 1..n : sectionMatch(lines[j]).ok}

\* The category that the most recent section header among the first n lines
\* sets, 'Unit' without one
CategoryAfter(n) ==
  IF SectionNos(n) = {}
    THEN "Unit"
    ELSE LET last == CHOOSE j \in SectionNos(n) : \A i \in SectionNos(n) : i <= j
         IN  IF Includes(ToLower(sectionMatch(lines[last]).g1), KwCharacter)
               THEN "Character"
               ELSE "Unit"

\* C16: every entry the parser emits with category Character has the command
\* champion 0, musician 0, bannerBearer 0, whatever its detail lines contain,
\* and the category of an entry is the one set by the most recent section
\* header before its header line, 'Unit' when there is none.
CharactersHaveNoCommand ==
  [][/\ \A i \in 1..Len(units') :
          units'[i].category = "Character" =>
            units'[i].command = [champion |-> 0, musician |-> 0, bannerBearer |-> 0]
     /\ (ppc = "loop" /\ lineNo <= Len(lines) /\ StartsEntry(lines[lineNo], parsedArmy)) =>
          (current' # Null /\ current'.category = CategoryAfter(lineNo - 1))
     /\ (units' # units) =>
          /\ units' = Append(units, units'[Len(units')])
          /\ units'[Len(units')].category = current.category]_vars

\* A Character entry under a section header was returned after a detail line
\* with the keyword of the champion
CharacterWithKeywordLine ==
  /\ ppc = "done"
  /\ Len(lines) = 4
  /\ sectionMatch(lines[2]).ok
  /\ StartsEntry(lines[3], parsedArmy)
  /\ Includes(ToLower(lines[4]), KwChampion)
  /\ Len(units) = 1
  /\ units[1].category = "Character"
  /\ units[1].command = [champion |-> 0, musician |-> 0, bannerBearer |-> 0]

(***************************************************************************)
(* Model counts                                                            *)
(***************************************************************************)

\* C17: every entry the parser returns has a modelCount of 1 or more, for
\* every text.
ModelCountsArePositive ==
  ppc = "done" => \A i \in 1..Len(units) : units[i].modelCount >= 1

(***************************************************************************)
(* One entry per header line                                               *)
(***************************************************************************)

\* The numbers of the lines that start an entry
HeaderNos == {j \in 1..Len(lines) : StartsEntry(lines[j], parsedArmy)}

\* The number of the i-th of them
NthHeader(i) == CHOOSE j \in HeaderNos : Cardinality({k \in HeaderNos : k <= j}) = i

\* The line flushes the entry in progress: a section header, a divider or the
\* header of the next entry
IsFlushTrigger(line) ==
  sectionMatch(line).ok \/ IsDivider(line) \/ StartsEntry(line, parsedArmy)

\* The number of the first flush trigger after line h, the end of input
\* without one
FlushNo(h) ==
  IF \E j \in (h + 1)..Len(lines) : IsFlushTrigger(lines[j])
    THEN CHOOSE j \in (h + 1)..Len(lines) :
           IsFlushTrigger(lines[j]) /\ \A k \in (h + 1)..(j - 1) : ~IsFlushTrigger(lines[k])
    ELSE Len(lines) + 1

\* The "-" lines between the header at line h and the flush of its entry, in
\* source order
OwnDetailLines(h) ==
  SelectSeq(SubSeq(lines, h + 1, FlushNo(h) - 1), LAMBDA l : StartsWith(l, <<"-">>))

\* The texts of the detail lines ls that have one, joined by newlines
RECURSIVE JoinedDetails(_)
JoinedDetails(ls) ==
  IF ls = <<>>
    THEN <<>>
    ELSE LET before == JoinedDetails(SubSeq(ls, 1, Len(ls) - 1))
             clean == cleanLine(ls[Len(ls)])
         IN  IF clean = <<>> THEN before
             ELSE IF before = <<>> THEN clean
             ELSE before \o <<"\n">> \o clean

\* The entry is the one of the header at line h: its name, count and
\* category, and the details and command counts of its own detail lines
IsEntryOfHeader(entry, h) ==
  /\ entry.name = IF withCountMatch(lines[h]).ok
                    THEN Trim(withCountMatch(lines[h]).g2)
                    ELSE Trim(singleMatch(lines[h]).g1)
  /\ entry.modelCount = IF withCountMatch(lines[h]).ok
                          THEN DigitsToNat(withCountMatch(lines[h]).g1)
                          ELSE 1
  /\ entry.category = CategoryAfter(h - 1)
  /\ entry.command =
       IF entry.category = "Character"
         THEN [champion |-> 0, musician |-> 0, bannerBearer |-> 0]
         ELSE KeywordCounts({OwnDetailLines(h)[j] : j \in 1..Len(OwnDetailLines(h))})
  /\ Has(entry, "details") => entry.details = JoinedDetails(OwnDetailLines(h))

\* C22: the parser returns exactly one entry for each line that starts an
\* entry, in the order of those lines: each entry is flushed once, by the
\* first section header, divider or entry header after its header line or by
\* the end of input, none is dropped or doubled, and a detail line that
\* follows a divider or section header before the next entry header belongs
\* to no entry.
OneEntryPerHeader ==
  ppc = "done" =>
    /\ Len(units) = Cardinality(HeaderNos)
    /\ \A i \in 1..Len(units) : IsEntryOfHeader(units[i], NthHeader(i))

\* A text of a header, a divider and a detail line with the keyword of the
\* champion was parsed: one entry, without the detail line
DetailLineAfterDivider ==
  /\ ppc = "done"
  /\ Len(lines) = 3
  /\ StartsEntry(lines[1], parsedArmy)
  /\ IsDivider(lines[2])
  /\ Includes(ToLower(lines[3]), KwChampion)
  /\ Len(units) = 1
  /\ units[1].category = "Unit"
  /\ units[1].command = [champion |-> 0, musician |-> 0, bannerBearer |-> 0]
  /\ Has(units[1], "details") /\ units[1].details = <<>>

(***************************************************************************)
(* The changed flag of the repair pass                                     *)
(***************************************************************************)

\* The fields of a record as readModels builds it
RecordKeys ==
  {"id", "name", "faction", "modelCount", "command", "state", "imageUrl", "createdAt",
   "updatedAt"}

\* The returned record differs from the stored item in one of these fields
FieldDiffers(stored, returned) ==
  \E k \in RecordKeys : ~Has(stored, k) \/ returned[k] # stored[k]

\* C21: the changed flag of the repair pass is exact: when a load returns a
\* record that differs in a field from what was stored, the flag is set and
\* the normalized array is written to the store; when no record differs, the
\* flag is not set and the store is left as it was.
ChangedFlagExact ==
  [][(revision = "server.js" /\ resp'.op = "load" /\ GetModels) =>
       LET rd == readModels(file, revision, nanoids, now)
       IN  IF \E i \in 1..Len(file) : FieldDiffers(file[i], rd.models[i])
             THEN rd.hasChanges /\ file' = rd.models
             ELSE ~rd.hasChanges /\ file' = file]_vars
====
